---- MODULE Spec2Model ----
(***************************************************************************)
(* Live Session Assistant of Speech-Path-Pro.                              *)
(*                                                                         *)
(* Two variants of the session note editor live in the repository:         *)
(*   src/components/NoteEditor.tsx  toggleLiveAssistant, transcript log,   *)
(*                                  intent (tool call) dispatcher          *)
(*   src/unnamed/part_003           undo history, startAssistant           *)
(* Text is modelled as a sequence of one-character strings.                *)
(***************************************************************************)
EXTENDS Integers, Sequences, FiniteSets, TLC

VARIABLES
    mounted,              \* the editor component is mounted
    studentsInGroup,      \* prop studentsInGroup: sequence of student ids
    liveStatus,           \* NoteEditor.tsx:82
    liveSessions,         \* one record per start of toggleLiveAssistant (its closure)
    sessionRef,           \* NoteEditor.tsx:85, 0 = null, else index into liveSessions
    audioContextRef,      \* NoteEditor.tsx:86, 0 = null, else index of the owning start
    frameSentWhile,       \* observer: the liveStatus values under which a frame reached the service
    liveTranscript,       \* NoteEditor.tsx:83
    currentTranscription, \* NoteEditor.tsx:84
    completedTurns,       \* observer: accumulated text of every completed turn, in order
    sessionStates,        \* NoteEditor.tsx:71, student id -> draft
    flashTally,           \* NoteEditor.tsx:90, <<>> = null
    flashCuing,           \* NoteEditor.tsx:91, <<>> = null
    tallyTimers,          \* pending setTimeout(() => setFlashTally(null), 800)
    cuingTimers,          \* pending setTimeout(() => setFlashCuing(null), 2500)
    toolResponses,        \* the sendToolResponse calls made so far, in order
    nextCallId,           \* observer: the id the remote service gives its next function call
    noMatchIds,           \* observer: ids of the calls received whose hint matched no student
    trialEvents,          \* observer: student id -> record_trial events received, by status
    unaddressedSeen,      \* observer: a call without student_name was received
    activeStudentId,      \* part_003:49
    historyStacks,        \* part_003:51, student id -> snapshots, newest first
    isDraftingSoap,       \* part_003:53
    soapRequest,          \* the helpWithSoapNote call in flight: <<>> or <<student id>>
    snapshotDraft,        \* observer: student id -> the draft when its last snapshot was taken
    oneSnapshot,          \* observer: student id -> exactly one snapshot since the stack was empty
    lastOp,               \* observer: the editor operation performed last
    discarded,            \* observer: the draft the last undo replaced, <<>> before any undo
    editCount,            \* observer: manual edits so far
    snapshotCount,        \* observer: snapshots taken so far
    snapshotLog,          \* observer: student id -> drafts snapshotted and not undone, newest first
    savedNotes,           \* the argument of onSaveNotes: <<>> before the call, else <<notes>>
    saveThrew,            \* observer: a finalizer ended with an exception
    droppedCalls,         \* observer: [hint, group] of the calls received that found no student
    draftsCreated,        \* observer: student id -> drafts created for the student so far
    initialNote,          \* prop initialNote: <<>> = null, else <<the persisted note>>
    assistant,            \* part_003: [active |-> isAssistantActive (line 52),
                          \*   listeners |-> the activeStudentId of each connected onmessage]
    lastFrame             \* the audio callback's last buffer and the frame built from it

connVars == <<mounted, studentsInGroup, liveStatus, liveSessions, sessionRef,
              audioContextRef, frameSentWhile>>
transcriptVars == <<liveTranscript, currentTranscription, completedTurns>>
intentVars == <<sessionStates, flashTally, flashCuing, tallyTimers, cuingTimers,
                toolResponses, nextCallId, noMatchIds, trialEvents, unaddressedSeen>>
msgVars == <<transcriptVars, intentVars>>
editorVars == <<activeStudentId, historyStacks, isDraftingSoap, soapRequest,
                snapshotDraft, oneSnapshot, lastOp, discarded, editCount, snapshotCount>>
finalVars == <<savedNotes, saveThrew>>
histVars == <<snapshotLog>>
resolveVars == <<droppedCalls>>
lifeVars == <<draftsCreated, initialNote>>
assistantVars == <<assistant, lastFrame>>
vars == <<connVars, msgVars, editorVars, finalVars, histVars, resolveVars, lifeVars,
          assistantVars>>

-----------------------------------------------------------------------------
(* Bounds of the model *)

MaxStarts == 2
MaxTurns == 3              \* completed turns in SpecTranscript
MaxBufferLen == 2          \* characters accumulated in one turn
CapTurns == 32             \* completed turns in SpecCap
MaxEdits == 2              \* manual edits in SpecUndo
MaxSnapshots == 1          \* snapshots in SpecUndo
MaxCalls == 3              \* function calls received in SpecIntent
HistorySnapshots == 11     \* snapshots in SpecHistory
HistoryUndos == 2          \* undos in SpecHistory
MaxRerenders == 2          \* re-renders of the parent in SpecDrafts
MaxClicks == 2             \* clicks on each tally in SpecDrafts
MaxTally == 23             \* clicks on each tally in SpecSave

-----------------------------------------------------------------------------
(* Text helpers *)

Concat(a, b) == a \o b

\* String.prototype.toLowerCase on the model's alphabet
LowerChar(ch) ==
    CASE ch = "L" -> "l"
      [] ch = "E" -> "e"
      [] ch = "O" -> "o"
      [] ch = "U" -> "u"
      [] ch = "S" -> "s"
      [] OTHER -> ch

toLowerCase(s) == [i \in 1..Len(s) |-> LowerChar(s[i])]

\* String.prototype.includes
includes(hay, needle) ==
    \E i \in 0..(Len(hay) - Len(needle)) :
        SubSeq(hay, i + 1, i + Len(needle)) = needle

IsSpace(ch) == ch \in {" ", "\n"}

RECURSIVE TrimStart(_)
TrimStart(s) ==
    IF s # <<>> /\ IsSpace(Head(s)) THEN TrimStart(Tail(s)) ELSE s

RECURSIVE TrimEnd(_)
TrimEnd(s) ==
    IF s # <<>> /\ IsSpace(s[Len(s)]) THEN TrimEnd(SubSeq(s, 1, Len(s) - 1)) ELSE s

\* String.prototype.trim
trim(s) == TrimEnd(TrimStart(s))

\* Array.prototype.slice(-n)
SliceLast(seq, n) ==
    IF Len(seq) <= n THEN seq ELSE SubSeq(seq, Len(seq) - n + 1, Len(seq))

-----------------------------------------------------------------------------
(* Roster *)

Students == {"s1", "s2"}

StudentName(id) ==
    CASE id = "s1" -> <<"L", "e", "o">>
      [] id = "s2" -> <<"L", "u">>

-----------------------------------------------------------------------------
(* Streaming session controller: toggleLiveAssistant *)

\* The closure of one start of toggleLiveAssistant.
NewLiveSession ==
    [ phase            |-> "mic",        \* awaiting getUserMedia
      stream           |-> "none",       \* the MediaStream: none | held | released
      processor        |-> FALSE,        \* scriptProcessor.onaudioprocess installed
      ctxClosed        |-> FALSE,        \* inputCtx closed
      studentsInGroup  |-> studentsInGroup,
      transcriptBuffer |-> <<>>,
      heard            |-> <<>> ]        \* observer: text received in the turn in progress

SessionIds == 1..Len(liveSessions)

\* session.close()
CloseSession(sessions, c) ==
    IF c # 0 /\ sessions[c].phase = "open"
    THEN [sessions EXCEPT ![c].phase = "closing"]
    ELSE sessions

\* setLiveStatus from a callback: a no-op once the component is unmounted
SetLiveStatus(v) == liveStatus' = IF mounted THEN v ELSE liveStatus

ToggleLiveAssistant ==
    /\ mounted
    /\ IF liveStatus # "idle"
       THEN /\ liveStatus' = "idle"
            /\ liveSessions' = CloseSession(liveSessions, sessionRef)
            /\ UNCHANGED audioContextRef
       ELSE /\ Len(liveSessions) < MaxStarts
            /\ liveStatus' = "connecting"
            /\ liveSessions' = Append(liveSessions, NewLiveSession)
            /\ audioContextRef' = Len(liveSessions) + 1
    /\ UNCHANGED <<mounted, studentsInGroup, sessionRef, frameSentWhile, msgVars, editorVars, finalVars, histVars, resolveVars, lifeVars, assistantVars>>

GetUserMediaResolved(c) ==
    /\ liveSessions[c].phase = "mic"
    /\ liveSessions' = [liveSessions EXCEPT ![c].phase = "connecting", ![c].stream = "held"]
    /\ UNCHANGED <<mounted, studentsInGroup, liveStatus, sessionRef, audioContextRef,
                   frameSentWhile, msgVars, editorVars, finalVars, histVars, resolveVars, lifeVars, assistantVars>>

\* a rejection that leaves the connection state as it is
GetUserMediaRejectedSilently(c) ==
    /\ liveSessions[c].phase = "mic"
    /\ liveSessions' = [liveSessions EXCEPT ![c].phase = "denied"]
    /\ UNCHANGED <<mounted, studentsInGroup, liveStatus, sessionRef, audioContextRef,
                   frameSentWhile, msgVars, editorVars, finalVars, histVars, resolveVars, lifeVars, assistantVars>>

GetUserMediaRejected(c) ==
    /\ liveSessions[c].phase = "mic"
    /\ liveSessions' = [liveSessions EXCEPT ![c].phase = "denied"]
    /\ SetLiveStatus("idle")
    /\ UNCHANGED <<mounted, studentsInGroup, sessionRef, audioContextRef,
                   frameSentWhile, msgVars, editorVars, finalVars, histVars, resolveVars, lifeVars, assistantVars>>

OnOpen(c) ==
    /\ liveSessions[c].phase = "connecting"
    /\ liveSessions' = [liveSessions EXCEPT ![c].phase = "open", ![c].processor = TRUE]
    /\ SetLiveStatus("active")
    /\ sessionRef' = c
    /\ UNCHANGED <<mounted, studentsInGroup, audioContextRef, frameSentWhile, msgVars, editorVars, finalVars, histVars, resolveVars, lifeVars, assistantVars>>

ConnectRejected(c) ==
    /\ liveSessions[c].phase = "connecting"
    /\ liveSessions' = [liveSessions EXCEPT ![c].phase = "failed"]
    /\ SetLiveStatus("idle")
    /\ UNCHANGED <<mounted, studentsInGroup, sessionRef, audioContextRef,
                   frameSentWhile, msgVars, editorVars, finalVars, histVars, resolveVars, lifeVars, assistantVars>>

OnAudioProcess(c) ==
    /\ liveSessions[c].processor
    /\ ~liveSessions[c].ctxClosed
    /\ frameSentWhile' = IF liveSessions[c].phase = "open" /\ mounted
                         THEN frameSentWhile \cup {liveStatus}
                         ELSE frameSentWhile
    /\ UNCHANGED <<mounted, studentsInGroup, liveStatus, liveSessions, sessionRef,
                   audioContextRef, msgVars, editorVars, finalVars, histVars, resolveVars, lifeVars, assistantVars>>

OnClose(c) ==
    /\ liveSessions[c].phase \in {"open", "closing"}
    /\ liveSessions' = [liveSessions EXCEPT ![c].phase = "closed"]
    /\ SetLiveStatus("idle")
    /\ UNCHANGED <<mounted, studentsInGroup, sessionRef, audioContextRef,
                   frameSentWhile, msgVars, editorVars, finalVars, histVars, resolveVars, lifeVars, assistantVars>>

OnError(c) ==
    /\ liveSessions[c].phase = "open"
    /\ liveSessions' = [liveSessions EXCEPT ![c].phase = "closing"]
    /\ SetLiveStatus("idle")
    /\ UNCHANGED <<mounted, studentsInGroup, sessionRef, audioContextRef,
                   frameSentWhile, msgVars, editorVars, finalVars, histVars, resolveVars, lifeVars, assistantVars>>

\* the unmount cleanup: sessionRef.current.close(), audioContextRef.current.close()
CleanedUp(sessions) ==
    LET closed == CloseSession(sessions, sessionRef)
    IN  IF audioContextRef # 0
        THEN [closed EXCEPT ![audioContextRef].ctxClosed = TRUE]
        ELSE closed

\* the editor is left by cancel
Unmount ==
    /\ mounted
    /\ mounted' = FALSE
    /\ liveSessions' = CleanedUp(liveSessions)
    /\ UNCHANGED <<studentsInGroup, liveStatus, sessionRef, audioContextRef,
                   frameSentWhile, msgVars, editorVars, finalVars, histVars, resolveVars, lifeVars, assistantVars>>

-----------------------------------------------------------------------------
(* Drafts: the draft initialisation effect of NoteEditor.tsx *)

\* s.goals.find(g => g.isPrimary)?.text || s.goals[0]?.text || ''
PrimaryGoal(id) ==
    CASE id = "s1" -> <<"r">>
      [] id = "s2" -> <<"s">>

EmptySoap == [subjective |-> <<>>, objective |-> <<>>, assessment |-> <<>>, plan |-> <<>>]

InitialDraft(id) ==
    [ rawObservations  |-> <<>>,
      soap             |-> EmptySoap,
      correctTally     |-> 0,
      incorrectTally   |-> 0,
      cuingLevel       |-> "Moderate",
      setting          |-> "Structured",
      selectedGoalText |-> PrimaryGoal(id),
      selectedPlanId   |-> <<>>,
      parentLetter     |-> <<>> ]

-----------------------------------------------------------------------------
(* Inbound messages *)

\* a text field that is absent from a payload
Undefined == <<"undefined">>

\* a LiveServerMessage: serverContent.inputTranscription (<<>> absent, else <<text>>),
\* serverContent.turnComplete, toolCall.functionCalls (<<>> when there is no toolCall)
Message(transcription, complete, calls) ==
    [inputTranscription |-> transcription, turnComplete |-> complete, functionCalls |-> calls]

FunctionCall(name, hint, status, text, level) ==
    [id |-> 0, name |-> name, student_name |-> hint,
     status |-> status, text |-> text, level |-> level]

\* the remote service numbers the calls it sends
WithIds(calls, first) == [i \in 1..Len(calls) |-> [calls[i] EXCEPT !.id = first + i - 1]]

-----------------------------------------------------------------------------
(* Transcript buffer: the transcription branch of onmessage *)

SliceKeep == 30

\* setLiveTranscript(prev => [...prev.slice(-30), transcriptBuffer.trim()])
PushTranscript(prev, entry) == Append(SliceLast(prev, SliceKeep), entry)

\* transcriptBuffer += chunk
Accumulate(buffer, chunk) == Concat(buffer, chunk)

\* a buffer that survives the end of its turn
BufferKept(buffer) == buffer

\* transcriptBuffer = "" once the turn is complete
BufferAfterTurn(buffer) == <<>>

\* the transcription branch: [buffer, current, log] after the message
TranscriptionBranch(buffer, current, log, m) ==
    IF m.inputTranscription = <<>>
    THEN [buffer |-> buffer, current |-> current, log |-> log]
    ELSE LET acc == Accumulate(buffer, m.inputTranscription[1])
         IN  IF m.turnComplete
             THEN [buffer  |-> BufferAfterTurn(acc),
                   current |-> <<>>,
                   log     |-> IF trim(acc) # <<>> THEN PushTranscript(log, trim(acc)) ELSE log]
             ELSE [buffer |-> acc, current |-> acc, log |-> log]

-----------------------------------------------------------------------------
(* Intent dispatcher: the toolCall branch of onmessage *)

CuingLevels == {"Maximal", "Moderate", "Minimal", "Independent"}

\* the template literal of NoteEditor.tsx:255 starts with the three characters
\* U+00E2 U+20AC U+00A2 and a space
Bullet == <<"U+00E2", "U+20AC", "U+00A2", " ">>

NameMatches(id, hint) == includes(toLowerCase(StudentName(id)), toLowerCase(hint))

\* studentsInGroup.find(s => s.name.toLowerCase().includes(hint.toLowerCase())):
\* <<>> when nobody matches, else <<id>>
RECURSIVE TargetStudent(_, _)
TargetStudent(group, hint) ==
    IF group = <<>> THEN <<>>
    ELSE IF NameMatches(Head(group), hint) THEN <<Head(group)>>
    ELSE TargetStudent(Tail(group), hint)

\* a tally that counts an event twice
IncrementTwice(n) == n + 2

\* (st[key] || 0) + 1
Increment(n) == n + 1

\* status === 'correct' ? 'correctTally' : 'incorrectTally'
TallyKey(status) == IF status = "correct" THEN "correctTally" ELSE "incorrectTally"

RecordTrial(st, id, status) ==
    [st EXCEPT !.states = [@ EXCEPT ![id][TallyKey(status)] = Increment(@)],
               !.flashTally = <<[studentId |-> id, type |-> status]>>,
               !.tallyTimers = @ + 1]

AddObservation(st, id, text) ==
    LET raw == st.states[id].rawObservations
    IN  [st EXCEPT !.states = [@ EXCEPT ![id].rawObservations =
             raw \o (IF raw # <<>> THEN <<"\n">> ELSE <<>>) \o Bullet \o text]]

\* a cuing level update that reaches every draft
UpdateCuingLevelEverywhere(st, id, level) ==
    [st EXCEPT !.states = [s \in DOMAIN @ |-> [@[s] EXCEPT !.cuingLevel = level]],
               !.flashCuing = <<id>>,
               !.cuingTimers = @ + 1]

\* { ...prev, [id]: { ...prev[id], cuingLevel: level } }: a student without a draft
\* gets an entry that holds the level only
UpdateCuingLevel(st, id, level) ==
    [st EXCEPT !.states = [s \in (DOMAIN @) \cup {id} |->
                              IF s # id THEN @[s]
                              ELSE IF id \in DOMAIN @ THEN [@[id] EXCEPT !.cuingLevel = level]
                              ELSE [cuingLevel |-> level]],
               !.flashCuing = <<id>>,
               !.cuingTimers = @ + 1]

\* the body of the loop for one function call whose student_name is present
DispatchCall(st, group, fc) ==
    LET target == TargetStudent(group, fc.student_name)
        applied ==
            IF target = <<>> THEN st
            ELSE IF fc.name = "update_cuing_level"
                 THEN UpdateCuingLevel(st, target[1], fc.level)
            ELSE IF target[1] \notin DOMAIN st.states THEN st
            ELSE CASE fc.name = "record_trial"       -> RecordTrial(st, target[1], fc.status)
                   [] fc.name = "add_observation"    -> AddObservation(st, target[1], fc.text)
                   [] OTHER -> st
    IN  [applied EXCEPT !.responses =
             Append(@, [id |-> fc.id, name |-> fc.name, result |-> "ok"])]

\* for (const fc of message.toolCall.functionCalls): reading student_name of a call
\* that has none throws, which ends the handler
RECURSIVE DispatchCalls(_, _, _)
DispatchCalls(st, group, calls) ==
    IF calls = <<>> THEN st
    ELSE IF Head(calls).student_name = Undefined THEN st
    ELSE DispatchCalls(DispatchCall(st, group, Head(calls)), group, Tail(calls))

\* observer: the record_trial calls of a message that name student id, by status
\* ("other": a status that is neither correct nor incorrect)
TrialsFor(group, calls, id, status) ==
    Cardinality({i \in 1..Len(calls) :
        /\ calls[i].student_name # Undefined
        /\ calls[i].name = "record_trial"
        /\ IF status = "other" THEN calls[i].status \notin {"correct", "incorrect"}
                               ELSE calls[i].status = status
        /\ TargetStudent(group, calls[i].student_name) = <<id>>})

OnMessage(c, msg) ==
    /\ liveSessions[c].phase = "open"
    /\ LET m  == [msg EXCEPT !.functionCalls = WithIds(@, nextCallId)]
           me == liveSessions[c]
           tr == TranscriptionBranch(me.transcriptBuffer, currentTranscription, liveTranscript, m)
           st == DispatchCalls(
                    [states |-> sessionStates, flashTally |-> flashTally,
                     flashCuing |-> flashCuing, tallyTimers |-> tallyTimers,
                     cuingTimers |-> cuingTimers, responses |-> toolResponses],
                    me.studentsInGroup, m.functionCalls)
           complete == m.inputTranscription # <<>> /\ m.turnComplete
           text == IF m.inputTranscription # <<>> THEN me.heard \o m.inputTranscription[1]
                   ELSE me.heard
       IN  /\ liveSessions' = [liveSessions EXCEPT
                  ![c].transcriptBuffer = tr.buffer,
                  ![c].heard = IF complete THEN <<>> ELSE text]
           /\ completedTurns' = IF complete THEN Append(completedTurns, text) ELSE completedTurns
           /\ currentTranscription' = IF mounted THEN tr.current ELSE currentTranscription
           /\ liveTranscript' = IF mounted THEN tr.log ELSE liveTranscript
           /\ sessionStates' = IF mounted THEN st.states ELSE sessionStates
           /\ flashTally' = IF mounted THEN st.flashTally ELSE flashTally
           /\ flashCuing' = IF mounted THEN st.flashCuing ELSE flashCuing
           /\ tallyTimers' = st.tallyTimers
           /\ cuingTimers' = st.cuingTimers
           /\ toolResponses' = st.responses
           /\ nextCallId' = nextCallId + Len(m.functionCalls)
           /\ noMatchIds' = noMatchIds \cup
                  {m.functionCalls[i].id : i \in {j \in 1..Len(m.functionCalls) :
                      /\ m.functionCalls[j].student_name # Undefined
                      /\ TargetStudent(me.studentsInGroup, m.functionCalls[j].student_name) = <<>>}}
           /\ trialEvents' = [id \in DOMAIN trialEvents |->
                  [status \in {"correct", "incorrect", "other"} |->
                      trialEvents[id][status]
                        + TrialsFor(me.studentsInGroup, m.functionCalls, id, status)]]
           /\ unaddressedSeen' = (unaddressedSeen \/ \E i \in 1..Len(m.functionCalls) :
                                      m.functionCalls[i].student_name = Undefined)
           /\ droppedCalls' = droppedCalls \cup
                  {[hint |-> m.functionCalls[i].student_name, group |-> me.studentsInGroup] :
                      i \in {j \in 1..Len(m.functionCalls) :
                          /\ \A k \in 1..j : m.functionCalls[k].student_name # Undefined
                          /\ TargetStudent(me.studentsInGroup, m.functionCalls[j].student_name) = <<>>}}
    /\ UNCHANGED <<mounted, studentsInGroup, liveStatus, sessionRef, audioContextRef,
                   frameSentWhile, editorVars, finalVars, histVars, lifeVars, assistantVars>>

\* setTimeout(() => setFlashTally(null), 800)
FlashTallyTimeout ==
    /\ tallyTimers > 0
    /\ tallyTimers' = tallyTimers - 1
    /\ flashTally' = IF mounted THEN <<>> ELSE flashTally
    /\ UNCHANGED <<connVars, transcriptVars, editorVars, sessionStates, flashCuing, cuingTimers,
                   toolResponses, nextCallId, noMatchIds, trialEvents, unaddressedSeen, finalVars, histVars, resolveVars, lifeVars, assistantVars>>

\* setTimeout(() => setFlashCuing(null), 2500)
FlashCuingTimeout ==
    /\ cuingTimers > 0
    /\ cuingTimers' = cuingTimers - 1
    /\ flashCuing' = IF mounted THEN <<>> ELSE flashCuing
    /\ UNCHANGED <<connVars, transcriptVars, editorVars, sessionStates, flashTally, tallyTimers,
                   toolResponses, nextCallId, noMatchIds, trialEvents, unaddressedSeen, finalVars, histVars, resolveVars, lifeVars, assistantVars>>

-----------------------------------------------------------------------------
(* Draft store with undo history: the editor of part_003 *)

MAX_HISTORY == 10

InitialEditorDraft(id) ==
    [ rawObservations  |-> <<>>,
      soap             |-> EmptySoap,
      correctTally     |-> 0,
      incorrectTally   |-> 0,
      cuingLevel       |-> "Moderate",
      setting          |-> "Structured",
      selectedGoalText |-> PrimaryGoal(id),
      selectedPlanId   |-> <<>>,
      stimuli          |-> "null" ]

\* { ...prev[id], ...updates }
Merge(draft, updates) ==
    [f \in DOMAIN draft \cup DOMAIN updates |->
        IF f \in DOMAIN updates THEN updates[f] ELSE draft[f]]

\* JSON.parse(JSON.stringify(draft)): every field of a draft is a string, a number,
\* null or an object of strings, which the round trip reproduces
JsonClone(draft) == draft

\* a push that evicts nothing
PushUnbounded(stack, draft) == <<JsonClone(draft)>> \o stack

\* [clone, ...stack].slice(0, MAX_HISTORY)
PushSnapshot(stack, draft) == SubSeq(<<JsonClone(draft)>> \o stack, 1,
                                     IF Len(stack) + 1 < MAX_HISTORY THEN Len(stack) + 1
                                     ELSE MAX_HISTORY)

\* previousState = stack[0]
PreviousState(stack) == stack[1]

\* a stack that keeps the snapshot it hands back
KeptStack(stack) == stack

\* remainingStack = stack.slice(1)
RemainingStack(stack) == Tail(stack)

\* the stacks after saveHistorySnapshot(id)
SaveHistorySnapshot(stacks, id) ==
    IF id \notin DOMAIN sessionStates THEN stacks
    ELSE [stacks EXCEPT ![id] = PushSnapshot(@, sessionStates[id])]

\* what the controls of the editor pass to updateState for the active student
Updates(draft) ==
    { [correctTally |-> draft.correctTally + 1],
      [incorrectTally |-> draft.incorrectTally + 1],
      [correctTally |-> 0, incorrectTally |-> 0],
      [cuingLevel |-> "Minimal"],
      [rawObservations |-> <<"m">>],
      [soap |-> [draft.soap EXCEPT !.subjective = <<"m">>]] }

UpdateState(id, updates) ==
    /\ mounted
    /\ id \in DOMAIN sessionStates
    /\ sessionStates' = [sessionStates EXCEPT ![id] = Merge(@, updates)]
    /\ oneSnapshot' = oneSnapshot
    /\ lastOp' = [op |-> "update", id |-> id]
    /\ editCount' = editCount + 1
    /\ UNCHANGED <<connVars, transcriptVars, flashTally, flashCuing, tallyTimers, cuingTimers,
                   toolResponses, nextCallId, noMatchIds, trialEvents, unaddressedSeen,
                   activeStudentId, historyStacks, isDraftingSoap, soapRequest,
                   snapshotDraft, discarded, snapshotCount, finalVars, histVars, resolveVars, lifeVars, assistantVars>>

\* onmessage of the assistant of part_003: the text heard is appended to the raw
\* observations of the student who was active when the assistant was started
OnTranscription(id, text) ==
    /\ mounted
    /\ id \in DOMAIN sessionStates
    /\ sessionStates' = [sessionStates EXCEPT ![id].rawObservations = @ \o <<" ">> \o text]
    /\ lastOp' = [op |-> "transcribed", id |-> id]
    /\ editCount' = editCount + 1
    /\ UNCHANGED <<connVars, transcriptVars, flashTally, flashCuing, tallyTimers, cuingTimers,
                   toolResponses, nextCallId, noMatchIds, trialEvents, unaddressedSeen,
                   activeStudentId, historyStacks, isDraftingSoap, soapRequest,
                   snapshotDraft, oneSnapshot, discarded, snapshotCount, finalVars, histVars,
                   resolveVars, lifeVars, assistantVars>>

\* a click on a student tab
SetActiveStudentId(id) ==
    /\ mounted
    /\ id # activeStudentId
    /\ activeStudentId' = id
    /\ lastOp' = [op |-> "select", id |-> id]
    /\ UNCHANGED <<connVars, msgVars, historyStacks, isDraftingSoap, soapRequest,
                   snapshotDraft, oneSnapshot, discarded, editCount, snapshotCount, finalVars, histVars, resolveVars, lifeVars, assistantVars>>

\* handleDraftSoap up to its await; the button is disabled while isDraftingSoap
HandleDraftSoap ==
    /\ mounted
    /\ ~isDraftingSoap
    /\ LET id == activeStudentId
           activeState == sessionStates[id]
       IN  IF activeState.rawObservations = <<>>
              /\ activeState.correctTally + activeState.incorrectTally = 0
           THEN /\ lastOp' = [op |-> "alert", id |-> id]
                /\ UNCHANGED <<historyStacks, isDraftingSoap, soapRequest, snapshotDraft,
                               oneSnapshot, snapshotCount, snapshotLog>>
           ELSE /\ historyStacks' = SaveHistorySnapshot(historyStacks, id)
                /\ isDraftingSoap' = TRUE
                /\ soapRequest' = <<id>>
                /\ snapshotDraft' = [snapshotDraft EXCEPT ![id] = sessionStates[id]]
                /\ oneSnapshot' = [oneSnapshot EXCEPT ![id] = (historyStacks[id] = <<>>)]
                /\ snapshotCount' = snapshotCount + 1
                /\ snapshotLog' = [snapshotLog EXCEPT ![id] = <<sessionStates[id]>> \o @]
                /\ lastOp' = [op |-> "snapshot", id |-> id]
    /\ UNCHANGED <<connVars, msgVars, activeStudentId, discarded, editCount, finalVars, resolveVars, lifeVars, assistantVars>>

AiSoap == [subjective |-> <<"A">>, objective |-> <<"A">>, assessment |-> <<"A">>,
           plan |-> <<"A">>]

\* helpWithSoapNote resolved: updateState(activeStudentId, { soap: draft }, true)
DraftSoapResolved ==
    /\ soapRequest # <<>>
    /\ LET id == soapRequest[1]
       IN  /\ sessionStates' = IF mounted /\ id \in DOMAIN sessionStates
                               THEN [sessionStates EXCEPT ![id] = Merge(@, [soap |-> AiSoap])]
                               ELSE sessionStates
           /\ lastOp' = [op |-> "aiDraft", id |-> id]
    /\ isDraftingSoap' = FALSE
    /\ soapRequest' = <<>>
    /\ UNCHANGED <<connVars, transcriptVars, flashTally, flashCuing, tallyTimers, cuingTimers,
                   toolResponses, nextCallId, noMatchIds, trialEvents, unaddressedSeen,
                   activeStudentId, historyStacks, snapshotDraft, oneSnapshot, discarded,
                   editCount, snapshotCount, finalVars, histVars, resolveVars, lifeVars, assistantVars>>

\* helpWithSoapNote rejected: the catch logs, the finally clears the flag
DraftSoapRejected ==
    /\ soapRequest # <<>>
    /\ isDraftingSoap' = FALSE
    /\ soapRequest' = <<>>
    /\ lastOp' = [op |-> "aiFailed", id |-> soapRequest[1]]
    /\ UNCHANGED <<connVars, msgVars, activeStudentId, historyStacks, snapshotDraft,
                   oneSnapshot, discarded, editCount, snapshotCount, finalVars, histVars, resolveVars, lifeVars, assistantVars>>

HandleUndo(id) ==
    /\ mounted
    /\ IF id \notin DOMAIN historyStacks \/ historyStacks[id] = <<>>
       THEN /\ lastOp' = [op |-> "undoEmpty", id |-> id]
            /\ UNCHANGED <<sessionStates, historyStacks, discarded, snapshotLog>>
       ELSE /\ sessionStates' = [sessionStates EXCEPT ![id] = PreviousState(historyStacks[id])]
            /\ historyStacks' = [historyStacks EXCEPT ![id] = RemainingStack(@)]
            /\ lastOp' = [op |-> "undo", id |-> id]
            /\ discarded' = <<sessionStates[id]>>
            /\ snapshotLog' = [snapshotLog EXCEPT ![id] = Tail(@)]
    /\ oneSnapshot' = [oneSnapshot EXCEPT ![id] = FALSE]
    /\ UNCHANGED <<connVars, transcriptVars, flashTally, flashCuing, tallyTimers, cuingTimers,
                   toolResponses, nextCallId, noMatchIds, trialEvents, unaddressedSeen,
                   activeStudentId, isDraftingSoap, soapRequest, snapshotDraft, editCount,
                   snapshotCount, finalVars, resolveVars, lifeVars, assistantVars>>

-----------------------------------------------------------------------------
(* Session finalizer: handleSaveAll of NoteEditor.tsx *)

\* A double's 53-bit significand is held in three limbs, h * 2^36 + m * 2^18 + l,
\* and its value is significand * 2^e.
Limb == 2^18

\* c * 2^k with t <= c * 2^k < 2 * t
RECURSIVE Normalise(_, _, _)
Normalise(c, t, k) == IF c >= t THEN [c |-> c, k |-> k] ELSE Normalise(2 * c, t, k + 1)

\* significand + 1; a carry out of the 53 bits renormalises
NextUp(x) ==
    LET l == x.l + 1
        m == x.m + l \div Limb
        h == x.h + m \div Limb
    IN  IF h = 2^17 THEN [h |-> 2^16, m |-> 0, l |-> 0, e |-> x.e + 1]
        ELSE [h |-> h, m |-> m % Limb, l |-> l % Limb, e |-> x.e]

\* IEEE 754 rounding: to nearest, ties to even
RoundToEven(x, guard, sticky) ==
    IF guard = 1 /\ (sticky \/ x.l % 2 = 1) THEN NextUp(x) ELSE x

\* c / t in double arithmetic, 0 < c <= t
DivDouble(c, t) ==
    LET nrm == Normalise(c, t, 0)
        r0 == nrm.c - t
        d1 == (r0 * 2^16) \div t
        r1 == (r0 * 2^16) % t
        d2 == (r1 * Limb) \div t
        r2 == (r1 * Limb) % t
        d3 == (r2 * Limb) \div t
        r3 == (r2 * Limb) % t
        guard == IF 2 * r3 >= t THEN 1 ELSE 0
        r4 == 2 * r3 - guard * t
    IN  RoundToEven([h |-> 2^16 + d1, m |-> d2, l |-> d3, e |-> 0 - 52 - nrm.k],
                    guard, r4 # 0)

\* x * 100 in double arithmetic
TimesHundred(x) ==
    LET t0 == x.l * 100
        t1 == x.m * 100 + t0 \div Limb
        p2 == x.h * 100 + t1 \div Limb
        p1 == t1 % Limb
        p0 == t0 % Limb
        s  == IF p2 >= 2^23 THEN 7 ELSE 6          \* bits beyond the 53rd
        kept == [h |-> p2 \div 2^s,
                 m |-> p1 \div 2^s + (p2 % 2^s) * 2^(18 - s),
                 l |-> p0 \div 2^s + (p1 % 2^s) * 2^(18 - s),
                 e |-> x.e + s]
    IN  RoundToEven(kept, (p0 \div 2^(s - 1)) % 2, p0 % 2^(s - 1) # 0)

\* Math.round of a double in [1, 2^16): the nearest integer, a tie going up
MathRound(x) ==
    LET f == 0 - x.e - 36                          \* fraction bits inside the top limb
    IN  (x.h \div 2^f) + ((x.h \div 2^(f - 1)) % 2)

\* total > 0 ? Math.round((correctTally / total) * 100) : 0
Accuracy(correct, total) ==
    IF total > 0 /\ correct > 0 THEN MathRound(TimesHundred(DivDouble(correct, total))) ELSE 0

\* metrics: total > 0 ? { accuracy, totalTrials, ... } : undefined   (<<>> = undefined)
SaveAllMetrics(st) ==
    LET total == st.correctTally + st.incorrectTally
    IN  IF total > 0
        THEN <<[accuracy    |-> Accuracy(st.correctTally, total),
                totalTrials |-> total,
                cuingLevel  |-> st.cuingLevel,
                setting     |-> st.setting,
                focusGoalId |-> st.selectedGoalText]>>
        ELSE <<>>

\* one element of notesToSave (id and date come from the clock and are left out)
SaveAllNote(id, st) ==
    [ studentId    |-> id,
      lessonPlanId |-> IF st.selectedPlanId # <<>> THEN st.selectedPlanId ELSE Undefined,
      subjective   |-> st.soap.subjective,
      objective    |-> st.soap.objective,
      assessment   |-> st.soap.assessment,
      plan         |-> st.soap.plan,
      parentGuide  |-> st.parentLetter,
      metrics      |-> SaveAllMetrics(st) ]

\* handleSaveAll: reading the tallies of a missing draft throws before onSaveNotes;
\* onSaveNotes stores the notes and leaves the editor, which runs the unmount cleanup
HandleSaveAll ==
    /\ mounted
    /\ IF \E i \in 1..Len(studentsInGroup) : studentsInGroup[i] \notin DOMAIN sessionStates
       THEN /\ saveThrew' = TRUE
            /\ UNCHANGED <<savedNotes, mounted, liveSessions>>
       ELSE /\ savedNotes' = <<[i \in 1..Len(studentsInGroup) |->
                                  SaveAllNote(studentsInGroup[i], sessionStates[studentsInGroup[i]])]>>
            /\ mounted' = FALSE
            /\ liveSessions' = CleanedUp(liveSessions)
            /\ UNCHANGED saveThrew
    /\ UNCHANGED <<studentsInGroup, liveStatus, sessionRef, audioContextRef, frameSentWhile,
                   msgVars, editorVars, histVars, resolveVars, lifeVars, assistantVars>>

\* a click on a tally of the active student: updateState(activeStudentId, { key: tally + 1 })
ClickTally(key) ==
    /\ mounted
    /\ activeStudentId \in DOMAIN sessionStates
    /\ sessionStates' = [sessionStates EXCEPT ![activeStudentId] =
                            Merge(@, [k \in {key} |-> sessionStates[activeStudentId][key] + 1])]
    /\ UNCHANGED <<connVars, transcriptVars, flashTally, flashCuing, tallyTimers, cuingTimers,
                   toolResponses, nextCallId, noMatchIds, trialEvents, unaddressedSeen,
                   editorVars, finalVars, histVars, resolveVars, lifeVars, assistantVars>>

-----------------------------------------------------------------------------
(* Session finalizer: handleFinalize of part_003 *)

\* sessionStates[s.id] || { soap: {}, correctTally: 0, incorrectTally: 0, ... }
FallbackDraft ==
    [ soap             |-> <<>>,
      correctTally     |-> 0,
      incorrectTally   |-> 0,
      cuingLevel       |-> "Moderate",
      setting          |-> "Structured",
      selectedGoalText |-> <<>> ]

\* st.soap.part || ''
SoapPart(soap, part) == IF part \in DOMAIN soap THEN soap[part] ELSE <<>>

\* st.selectedPlanId || undefined
PlanIdOf(st) ==
    IF "selectedPlanId" \in DOMAIN st /\ st.selectedPlanId # <<>> THEN st.selectedPlanId
    ELSE Undefined

\* one element of finalNotes (id and date come from the clock and are left out)
FinalNote(id, drafts) ==
    LET st == IF id \in DOMAIN drafts THEN drafts[id] ELSE FallbackDraft
        total == st.correctTally + st.incorrectTally
    IN  [ studentId    |-> id,
          subjective   |-> SoapPart(st.soap, "subjective"),
          objective    |-> SoapPart(st.soap, "objective"),
          assessment   |-> SoapPart(st.soap, "assessment"),
          plan         |-> SoapPart(st.soap, "plan"),
          lessonPlanId |-> PlanIdOf(st),
          metrics      |-> <<[accuracy    |-> Accuracy(st.correctTally, total),
                              totalTrials |-> total,
                              cuingLevel  |-> st.cuingLevel,
                              setting     |-> st.setting,
                              focusGoalId |-> st.selectedGoalText]>> ]

\* handleFinalize; onSaveNotes stores the notes and leaves the editor
HandleFinalize ==
    /\ mounted
    /\ savedNotes' = <<[i \in 1..Len(studentsInGroup) |->
                          FinalNote(studentsInGroup[i], sessionStates)]>>
    /\ mounted' = FALSE
    /\ liveSessions' = CleanedUp(liveSessions)
    /\ UNCHANGED <<studentsInGroup, liveStatus, sessionRef, audioContextRef, frameSentWhile,
                   msgVars, editorVars, histVars, resolveVars, lifeVars, saveThrew, assistantVars>>

-----------------------------------------------------------------------------
(* Draft initialisation effect of NoteEditor.tsx under re-renders of its parent *)

RECURSIVE Elements(_)
Elements(seq) == IF seq = <<>> THEN {} ELSE {Head(seq)} \cup Elements(Tail(seq))

\* the draft made from initialNote when the group has one student
NoteDraft(id, note) ==
    LET metrics == note.metrics
    IN  [ rawObservations  |-> <<>>,
          soap             |-> [subjective |-> note.subjective, objective |-> note.objective,
                                assessment |-> note.assessment, plan |-> note.plan],
          correctTally     |-> IF metrics # <<>> THEN metrics[1].accuracy ELSE 0,
          incorrectTally   |-> 0,
          cuingLevel       |-> IF metrics # <<>> THEN metrics[1].cuingLevel ELSE "Moderate",
          setting          |-> IF metrics # <<>> THEN metrics[1].setting ELSE "Structured",
          selectedGoalText |-> IF metrics # <<>> /\ metrics[1].focusGoalId # <<>>
                               THEN metrics[1].focusGoalId ELSE PrimaryGoal(id),
          selectedPlanId   |-> IF note.lessonPlanId # Undefined THEN note.lessonPlanId ELSE <<>>,
          parentLetter     |-> note.parentGuide ]

\* the effect body: setSessionStates(initialState)
DraftInitEffect(group) ==
    [id \in Elements(group) |->
        IF initialNote # <<>> /\ Len(group) = 1 THEN NoteDraft(id, initialNote[1])
        ELSE InitialDraft(id)]

\* App renders again (its menu button calls setIsSidebarOpen): selectedStudents is a
\* new array with the same students, so the effect, which depends on studentsInGroup,
\* runs again
ParentRerender ==
    /\ mounted
    /\ sessionStates' = DraftInitEffect(studentsInGroup)
    /\ activeStudentId' = IF studentsInGroup # <<>> THEN studentsInGroup[1] ELSE activeStudentId
    /\ UNCHANGED <<connVars, transcriptVars, flashTally, flashCuing, tallyTimers, cuingTimers,
                   toolResponses, nextCallId, noMatchIds, trialEvents, unaddressedSeen,
                   historyStacks, isDraftingSoap, soapRequest, snapshotDraft, oneSnapshot,
                   lastOp, discarded, editCount, snapshotCount, finalVars, histVars, resolveVars>>
    /\ draftsCreated' = [id \in Students |->
           draftsCreated[id] + (IF id \in Elements(studentsInGroup) THEN 1 ELSE 0)]
    /\ UNCHANGED <<initialNote, assistantVars>>

\* a click on a student tab
SwitchStudent(id) == SetActiveStudentId(id)

-----------------------------------------------------------------------------

InitShared ==
    /\ mounted = TRUE
    /\ liveStatus = "idle"
    /\ liveSessions = <<>>
    /\ sessionRef = 0
    /\ audioContextRef = 0
    /\ frameSentWhile = {}
    /\ liveTranscript = <<>>
    /\ currentTranscription = <<>>
    /\ completedTurns = <<>>
    /\ flashTally = <<>>
    /\ flashCuing = <<>>
    /\ tallyTimers = 0
    /\ cuingTimers = 0
    /\ toolResponses = <<>>
    /\ nextCallId = 1
    /\ noMatchIds = {}
    /\ trialEvents = [id \in Students |-> [st \in {"correct", "incorrect", "other"} |-> 0]]
    /\ unaddressedSeen = FALSE
    /\ activeStudentId = "s1"
    /\ historyStacks = [id \in Students |-> <<>>]
    /\ isDraftingSoap = FALSE
    /\ soapRequest = <<>>
    /\ snapshotDraft = [id \in Students |-> <<>>]
    /\ oneSnapshot = [id \in Students |-> FALSE]
    /\ lastOp = [op |-> "none", id |-> ""]
    /\ discarded = <<>>
    /\ editCount = 0
    /\ snapshotCount = 0
    /\ savedNotes = <<>>
    /\ snapshotLog = [id \in Students |-> <<>>]
    /\ saveThrew = FALSE
    /\ droppedCalls = {}
    /\ assistant = [active |-> FALSE, listeners |-> {}]
    /\ lastFrame = [input |-> <<>>, data |-> <<>>, mimeType |-> ""]

\* the editor of NoteEditor.tsx after its first render and draft initialisation
Init ==
    /\ InitShared
    /\ sessionStates = [id \in Students |-> InitialDraft(id)]
    /\ draftsCreated = [id \in Students |-> 1]
    /\ initialNote = <<>>
    /\ studentsInGroup = <<"s1", "s2">>

\* the editor of NoteEditor.tsx after its first render, before the draft
\* initialisation effect has run: useState({})
InitMount ==
    /\ InitShared
    /\ sessionStates = [id \in {} |-> InitialDraft(id)]
    /\ draftsCreated = [id \in Students |-> 0]
    /\ initialNote = <<>>
    /\ studentsInGroup = <<"s1", "s2">>

\* the editor of part_003 after its first render and draft initialisation
InitEditor ==
    /\ InitShared
    /\ sessionStates = [id \in Students |-> InitialEditorDraft(id)]
    /\ draftsCreated = [id \in Students |-> 1]
    /\ initialNote = <<>>
    /\ studentsInGroup = <<"s1", "s2">>

NextConn ==
    \/ ToggleLiveAssistant
    \/ Unmount
    \/ \E c \in SessionIds : GetUserMediaResolved(c)
    \/ \E c \in SessionIds : GetUserMediaRejected(c)
    \/ \E c \in SessionIds : OnOpen(c)
    \/ \E c \in SessionIds : ConnectRejected(c)
    \/ \E c \in SessionIds : OnAudioProcess(c)
    \/ \E c \in SessionIds : OnClose(c)
    \/ \E c \in SessionIds : OnError(c)

SpecConn == Init /\ [][NextConn]_vars

-----------------------------------------------------------------------------
(* The transcript buffer under a stream of transcription messages *)

Chunks == {<<"a">>, <<" ">>}

TranscriptMessages ==
    {Message(<<ch>>, tc, <<>>) : ch \in Chunks, tc \in BOOLEAN}
    \cup {Message(<<>>, tc, <<>>) : tc \in BOOLEAN}

Transcribe(c, m) ==
    /\ m.turnComplete => Len(completedTurns) < MaxTurns
    /\ m.inputTranscription # <<>> =>
          Len(liveSessions[c].transcriptBuffer) + Len(m.inputTranscription[1]) <= MaxBufferLen
    /\ OnMessage(c, m)

\* a click on Start Assistant
StartAssistantClick == liveStatus = "idle" /\ ToggleLiveAssistant

NextTranscript ==
    \/ StartAssistantClick
    \/ \E c \in SessionIds : GetUserMediaResolved(c)
    \/ \E c \in SessionIds : OnOpen(c)
    \/ \E c \in SessionIds : OnClose(c)
    \/ \E c \in SessionIds : \E m \in TranscriptMessages : Transcribe(c, m)

SpecTranscript == Init /\ [][NextTranscript]_vars

\* every turn is one message that completes it
CapMessages == {Message(<<<<"a">>>>, TRUE, <<>>)}

TranscribeTurn(c, m) ==
    /\ Len(completedTurns) < CapTurns
    /\ OnMessage(c, m)

NextCap ==
    \/ StartAssistantClick
    \/ \E c \in SessionIds : GetUserMediaResolved(c)
    \/ \E c \in SessionIds : OnOpen(c)
    \/ \E c \in SessionIds : OnClose(c)
    \/ \E c \in SessionIds : \E m \in CapMessages : TranscribeTurn(c, m)

SpecCap == Init /\ [][NextCap]_vars

-----------------------------------------------------------------------------
(* The intent dispatcher under a stream of tool call messages *)

Hints == {<<"l", "e", "o">>, <<"L", "U">>, <<"l">>, <<"z">>, Undefined}

Calls ==
    {FunctionCall("record_trial", h, st, Undefined, "undefined") :
        h \in Hints, st \in {"correct", "incorrect", "partial"}}
    \cup {FunctionCall("add_observation", h, "undefined", <<"x">>, "undefined") : h \in Hints}
    \cup {FunctionCall("update_cuing_level", h, "undefined", Undefined, "Minimal") : h \in Hints}
    \cup {FunctionCall("log_note", h, "undefined", Undefined, "undefined") : h \in Hints}

\* the calls that also arrive two to a message
PairCalls ==
    {fc \in Calls : /\ fc.student_name \in {<<"l", "e", "o">>, <<"z">>, Undefined}
                    /\ fc.name \in {"record_trial", "add_observation"}
                    /\ fc.status # "partial"}

ToolCallMessages ==
    {Message(<<>>, FALSE, <<fc>>) : fc \in Calls}
    \cup {Message(<<>>, FALSE, <<f1, f2>>) : f1 \in PairCalls, f2 \in PairCalls}

ToolCall(c, m) ==
    /\ nextCallId + Len(m.functionCalls) <= MaxCalls + 1
    /\ OnMessage(c, m)

NextIntent ==
    \/ StartAssistantClick
    \/ \E c \in SessionIds : GetUserMediaResolved(c)
    \/ \E c \in SessionIds : OnOpen(c)
    \/ \E c \in SessionIds : \E m \in ToolCallMessages : ToolCall(c, m)
    \/ FlashTallyTimeout
    \/ FlashCuingTimeout

SpecIntent == Init /\ [][NextIntent]_vars

-----------------------------------------------------------------------------
(* Subject resolution under hints that are shorter and longer than the names *)

ResolveHints == {<<"l", "e">>, <<"L", "U">>, <<"L", "e", "o", " ", "S">>, <<"z">>}

ResolveMessages ==
    {Message(<<>>, FALSE, <<FunctionCall("record_trial", h, st, Undefined, "undefined")>>) :
        h \in ResolveHints, st \in {"correct", "incorrect"}}
    \cup {Message(<<>>, FALSE, <<FunctionCall("add_observation", h, "undefined", <<"x">>, "undefined")>>) :
        h \in ResolveHints}

NextResolve ==
    \/ StartAssistantClick
    \/ \E c \in SessionIds : GetUserMediaResolved(c)
    \/ \E c \in SessionIds : OnOpen(c)
    \/ \E c \in SessionIds : \E m \in ResolveMessages : ToolCall(c, m)
    \/ FlashTallyTimeout

SpecResolve == Init /\ [][NextResolve]_vars

-----------------------------------------------------------------------------
(* The draft store of part_003 under edits, AI drafting and undo *)

Edit ==
    /\ editCount < MaxEdits
    /\ \E u \in Updates(sessionStates[activeStudentId]) : UpdateState(activeStudentId, u)

DraftSoapClick ==
    /\ snapshotCount < MaxSnapshots
    /\ HandleDraftSoap

\* speech heard by an assistant that was started while student id was active
Transcribed(id) ==
    /\ editCount < MaxEdits
    /\ OnTranscription(id, <<"t">>)

NextUndo ==
    \/ Edit
    \/ \E id \in Students : Transcribed(id)
    \/ \E id \in Students : SetActiveStudentId(id)
    \/ DraftSoapClick
    \/ DraftSoapResolved
    \/ DraftSoapRejected
    \/ HandleUndo(activeStudentId)

SpecUndo == InitEditor /\ [][NextUndo]_vars

-----------------------------------------------------------------------------
(* The finalizer of NoteEditor.tsx after manual tallying *)

CountTrial(key) ==
    /\ sessionStates[activeStudentId][key] < MaxTally
    /\ ClickTally(key)

NextSave ==
    \/ CountTrial("correctTally")
    \/ CountTrial("incorrectTally")
    \/ HandleSaveAll

SpecSave == Init /\ [][NextSave]_vars

-----------------------------------------------------------------------------
(* The finalizer of part_003 after manual edits *)

NextFinalize ==
    \/ Edit
    \/ \E id \in Students : SetActiveStudentId(id)
    \/ HandleFinalize

SpecFinalize == InitEditor /\ [][NextFinalize]_vars

-----------------------------------------------------------------------------
(* The history stack of part_003 under many snapshots *)

\* a click on the correct tally of the active student, once before every snapshot
TallyEdit ==
    /\ editCount <= snapshotCount
    /\ UpdateState(activeStudentId,
                   [correctTally |-> sessionStates[activeStudentId].correctTally + 1])

\* a click on Draft SOAP after the edit
SnapshotClick ==
    /\ snapshotCount < HistorySnapshots
    /\ editCount > snapshotCount
    /\ HandleDraftSoap

UndoClick ==
    /\ snapshotCount - Len(snapshotLog[activeStudentId]) < HistoryUndos
    /\ HandleUndo(activeStudentId)

NextHistory ==
    \/ TallyEdit
    \/ SnapshotClick
    \/ DraftSoapResolved
    \/ UndoClick

SpecHistory == InitEditor /\ [][NextHistory]_vars

-----------------------------------------------------------------------------
(* The drafts of NoteEditor.tsx under tally clicks and re-renders of the parent *)

TallyClick(key) ==
    /\ activeStudentId \in DOMAIN sessionStates
    /\ sessionStates[activeStudentId][key] < MaxClicks
    /\ ClickTally(key)

Rerender ==
    /\ \A id \in Students : draftsCreated[id] <= MaxRerenders
    /\ ParentRerender

NextDrafts ==
    \/ TallyClick("correctTally")
    \/ TallyClick("incorrectTally")
    \/ \E id \in Students : SwitchStudent(id)
    \/ Rerender

SpecDrafts == Init /\ [][NextDrafts]_vars

-----------------------------------------------------------------------------
(* The editor of NoteEditor.tsx from its first render *)

\* the first run of the draft initialisation effect, after the first render
FirstEffect ==
    /\ DOMAIN sessionStates = {}
    /\ ParentRerender

NextMount ==
    \/ FirstEffect
    \/ TallyClick("correctTally")
    \/ TallyClick("incorrectTally")
    \/ \E id \in Students : SwitchStudent(id)
    \/ HandleSaveAll

SpecMount == InitMount /\ [][NextMount]_vars

-----------------------------------------------------------------------------
(* The group picker of part_003 *)

Roster == <<"s1", "s2">>

\* App: students.filter(s => selectedStudentIds.includes(s.id))
SelectedStudents(ids) == SelectSeq(Roster, LAMBDA s : s \in ids)

\* the draft initialisation effect of part_003 for a group: a student who has a
\* draft is skipped, { ...initialState, ...prev }
EditorInitDrafts(drafts, group) ==
    [id \in (DOMAIN drafts) \cup Elements(group) |->
        IF id \in DOMAIN drafts THEN drafts[id] ELSE InitialEditorDraft(id)]

\* { ...initialHistory, ...prev }
EditorInitHistory(stacks, drafts, group) ==
    [id \in (DOMAIN stacks) \cup (Elements(group) \ DOMAIN drafts) |->
        IF id \in DOMAIN stacks THEN stacks[id] ELSE <<>>]

\* toggleStudentInGroup, followed by the effect that the new studentsInGroup
\* triggers; the last student of the group is never removed here
ToggleStudentInGroup(id) ==
    /\ mounted
    /\ LET currentIds == Elements(studentsInGroup)
           newGroup == IF id \in currentIds THEN SelectedStudents(currentIds \ {id})
                       ELSE SelectedStudents(currentIds \cup {id})
       IN  /\ newGroup # <<>>
           /\ studentsInGroup' = newGroup
           /\ activeStudentId' = IF id \in currentIds /\ activeStudentId = id
                                 THEN newGroup[1] ELSE activeStudentId
           /\ sessionStates' = EditorInitDrafts(sessionStates, newGroup)
           /\ historyStacks' = EditorInitHistory(historyStacks, sessionStates, newGroup)
    /\ lastOp' = [op |-> "toggle", id |-> id]
    /\ UNCHANGED <<mounted, liveStatus, liveSessions, sessionRef, audioContextRef,
                   frameSentWhile, transcriptVars, flashTally, flashCuing, tallyTimers,
                   cuingTimers, toolResponses, nextCallId, noMatchIds, trialEvents,
                   unaddressedSeen, isDraftingSoap, soapRequest, snapshotDraft, oneSnapshot,
                   discarded, editCount, snapshotCount, finalVars, histVars, resolveVars,
                   lifeVars, assistantVars>>

\* the tabs show the students of the group
SelectTab(id) ==
    /\ id \in Elements(studentsInGroup)
    /\ SetActiveStudentId(id)

NextGroup ==
    \/ Edit
    \/ \E id \in Students : SelectTab(id)
    \/ DraftSoapClick
    \/ DraftSoapResolved
    \/ \E id \in Students : ToggleStudentInGroup(id)

SpecGroup == InitEditor /\ [][NextGroup]_vars

-----------------------------------------------------------------------------
(* The editor of NoteEditor.tsx opened on a persisted note, with its student picker *)

MaxTrials == 3             \* trials of the session that produced the persisted note

\* the notes that handleSaveAll has produced for the first student
PersistedNotes ==
    {SaveAllNote("s1", [InitialDraft("s1") EXCEPT !.correctTally = p[1],
                                                  !.incorrectTally = p[2] - p[1],
                                                  !.cuingLevel = "Minimal"]) :
        p \in {q \in (0..MaxTrials) \X (0..MaxTrials) : q[1] <= q[2]}}

\* NoteList onEditNote: the note's student is the group, then the first render and
\* the draft initialisation effect
InitEdit ==
    /\ InitShared
    /\ initialNote \in {<<note>> : note \in {n \in PersistedNotes : n.metrics # <<>>}}
    /\ studentsInGroup = <<"s1">>
    /\ sessionStates = DraftInitEffect(<<"s1">>)
    /\ draftsCreated = [id \in Students |-> IF id = "s1" THEN 1 ELSE 0]

\* onSelectStudents(ids): App keeps the editor only while a note or a student is
\* selected; the new studentsInGroup runs the draft initialisation effect
OnSelectStudents(ids) ==
    /\ mounted
    /\ studentsInGroup' = SelectedStudents(ids)
    /\ IF ids = {} /\ initialNote = <<>>
       THEN /\ mounted' = FALSE
            /\ liveSessions' = CleanedUp(liveSessions)
            /\ UNCHANGED <<sessionStates, activeStudentId, draftsCreated>>
       ELSE /\ sessionStates' = DraftInitEffect(SelectedStudents(ids))
            /\ activeStudentId' = IF ids # {} THEN SelectedStudents(ids)[1] ELSE activeStudentId
            /\ draftsCreated' = [id \in Students |->
                                    draftsCreated[id] + (IF id \in ids THEN 1 ELSE 0)]
            /\ UNCHANGED <<mounted, liveSessions>>
    /\ UNCHANGED <<liveStatus, sessionRef, audioContextRef, frameSentWhile, transcriptVars,
                   flashTally, flashCuing, tallyTimers, cuingTimers, toolResponses,
                   nextCallId, noMatchIds, trialEvents, unaddressedSeen, historyStacks,
                   isDraftingSoap, soapRequest, snapshotDraft, oneSnapshot, lastOp, discarded,
                   editCount, snapshotCount, finalVars, histVars, resolveVars, initialNote, assistantVars>>

\* "Add/Edit Students in Session"
EditStudentsClick ==
    /\ studentsInGroup # <<>>
    /\ OnSelectStudents({})

\* "Start Session with n Students" on the selection screen
StartSessionClick(ids) ==
    /\ studentsInGroup = <<>>
    /\ ids # {}
    /\ \A id \in ids : draftsCreated[id] < MaxRerenders
    /\ OnSelectStudents(ids)

CuingMessages ==
    {Message(<<>>, FALSE, <<FunctionCall("update_cuing_level", h, "undefined", Undefined, l)>>) :
        h \in {<<"l", "e">>, <<"L", "U">>}, l \in {"Minimal", "Maximal"}}

NextRegroup ==
    \/ StartAssistantClick
    \/ \E c \in SessionIds : GetUserMediaResolved(c)
    \/ \E c \in SessionIds : OnOpen(c)
    \/ EditStudentsClick
    \/ \E ids \in SUBSET Students : StartSessionClick(ids)
    \/ \E c \in SessionIds : \E m \in CuingMessages : ToolCall(c, m)
    \/ FlashCuingTimeout

SpecRegroup == InitEdit /\ [][NextRegroup]_vars

-----------------------------------------------------------------------------
(* The assistant of part_003 that writes what it hears into the observations *)

\* startAssistant: while the assistant is shown as active the click only clears the
\* flag (the connection is left open); otherwise the microphone is requested and a
\* connection is opened whose onmessage closes over the activeStudentId of the
\* render in which the button was clicked
StartAssistant ==
    /\ mounted
    /\ assistant' = IF assistant.active
                    THEN [assistant EXCEPT !.active = FALSE]
                    ELSE [active |-> TRUE,
                          listeners |-> assistant.listeners \cup {activeStudentId}]
    /\ UNCHANGED <<connVars, msgVars, editorVars, finalVars, histVars, resolveVars, lifeVars,
                   lastFrame>>

\* a transcription message on one of the open connections
Heard(text) ==
    /\ editCount < MaxEdits
    /\ \E id \in assistant.listeners : OnTranscription(id, text)

NextListen ==
    \/ StartAssistant
    \/ \E id \in Students : SetActiveStudentId(id)
    \/ Heard(<<"t">>)
    \/ Heard(<<"u">>)
    \/ Edit

SpecListen == InitEditor /\ [][NextListen]_vars

-----------------------------------------------------------------------------
(* A persisted note opened in NoteEditor.tsx and finalized again *)

SpecReopen == InitEdit /\ [][NextSave]_vars

-----------------------------------------------------------------------------
(* Audio frame encoder: createBlob and encode *)

SampleSteps == 4           \* a sample is n / SampleSteps for n in -SampleSteps..SampleSteps
MaxSamples == 3            \* samples in one buffer of the audio callback

Samples == (0 - SampleSteps)..SampleSteps

\* data[i] * 32768 as a number, then the conversion of the Int16Array store:
\* truncate towards zero, take the value modulo 2^16, read it as signed
Truncated(n) ==
    IF n >= 0 THEN (n * 32768) \div SampleSteps
    ELSE 0 - (((0 - n) * 32768) \div SampleSteps)

ToInt16(x) ==
    LET u == ((x % 65536) + 65536) % 65536
    IN  IF u >= 32768 THEN u - 65536 ELSE u

\* new Uint8Array(int16.buffer): two bytes per element, low byte first
BytesOf(v) ==
    LET u == (v + 65536) % 65536
    IN  <<u % 256, u \div 256>>

RECURSIVE Uint8Array(_)
Uint8Array(data) ==
    IF data = <<>> THEN <<>>
    ELSE BytesOf(ToInt16(Truncated(Head(data)))) \o Uint8Array(Tail(data))

\* the padding character "=" of base64, next to the digits 0..63
Pad == 64

\* btoa: three bytes give four 6-bit digits, the last group is padded
RECURSIVE encode(_)
encode(bytes) ==
    IF bytes = <<>> THEN <<>>
    ELSE IF Len(bytes) = 1
         THEN <<bytes[1] \div 4, (bytes[1] % 4) * 16, Pad, Pad>>
    ELSE IF Len(bytes) = 2
         THEN <<bytes[1] \div 4, (bytes[1] % 4) * 16 + bytes[2] \div 16,
                (bytes[2] % 16) * 4, Pad>>
    ELSE <<bytes[1] \div 4, (bytes[1] % 4) * 16 + bytes[2] \div 16,
           (bytes[2] % 16) * 4 + bytes[3] \div 64, bytes[3] % 64>>
         \o encode(SubSeq(bytes, 4, Len(bytes)))

createBlob(data) ==
    [input |-> data, data |-> encode(Uint8Array(data)), mimeType |-> "audio/pcm;rate=16000"]

RECURSIVE Buffers(_)
Buffers(n) ==
    IF n = 0 THEN {<<>>}
    ELSE Buffers(n - 1) \cup {Append(b, s) : b \in {x \in Buffers(n - 1) : Len(x) = n - 1},
                                            s \in Samples}

\* the audio callback builds the frame of one buffer
BuildFrame(data) ==
    /\ lastFrame' = createBlob(data)
    /\ UNCHANGED <<connVars, msgVars, editorVars, finalVars, histVars, resolveVars, lifeVars,
                   assistant>>

NextEncode == \E data \in Buffers(MaxSamples) : BuildFrame(data)

SpecEncode == Init /\ [][NextEncode]_vars

-----------------------------------------------------------------------------
(* Claims about the transcript buffer *)

\* C1: the transcript log never holds more than 30 entries.
C1_LogAtMost30 == Len(liveTranscript) <= 30

IsSuffix(a, b) == Len(a) <= Len(b) /\ a = SubSeq(b, Len(b) - Len(a) + 1, Len(b))

NonBlank(t) == trim(t) # <<>>

\* the trimmed text of the completed turns that are not blank, in completion order
CompletedEntries ==
    LET kept == SelectSeq(completedTurns, NonBlank)
    IN  [i \in 1..Len(kept) |-> trim(kept[i])]

-----------------------------------------------------------------------------
(* Claims about the draft store *)

\* C3: an undo performed after exactly one snapshot of a student's draft, whatever
\* mutations followed it, restores the draft to its state at snapshot time and leaves
\* the stack empty; an undo on an empty stack changes neither drafts nor stacks.
C3_UndoRestoresSnapshot ==
    [][\A id \in Students :
         /\ (lastOp' = [op |-> "undo", id |-> id] /\ oneSnapshot[id]) =>
               /\ sessionStates'[id] = snapshotDraft[id]
               /\ historyStacks'[id] = <<>>
         /\ lastOp' = [op |-> "undoEmpty", id |-> id] =>
               /\ sessionStates' = sessionStates
               /\ historyStacks' = historyStacks]_vars

\* an undo on the empty stack, right after the undo of the single snapshot had
\* restored a draft that had been changed since the snapshot
C3_Witness ==
    /\ lastOp.op = "undoEmpty"
    /\ snapshotCount = 1
    /\ discarded # <<>>
    /\ discarded[1] # sessionStates[lastOp.id]
    /\ sessionStates[lastOp.id] = snapshotDraft[lastOp.id]
    /\ historyStacks[lastOp.id] = <<>>

\* C20: when the result of the AI drafting request is applied to a student's
\* draft, the top of the student's history stack is the draft as it was just
\* before the result was applied.
C20_SnapshotBeforeOverwrite ==
    [][\A id \in Students :
         (soapRequest = <<id>> /\ lastOp' = [op |-> "aiDraft", id |-> id]
            /\ sessionStates'[id] # sessionStates[id]) =>
               /\ historyStacks[id] # <<>>
               /\ historyStacks[id][1] = sessionStates[id]]_vars

IsPrefix(a, b) == Len(a) <= Len(b) /\ a = SubSeq(b, 1, Len(a))

\* C14: a history stack never holds more than 10 snapshots; it holds, newest first,
\* the drafts as they were when snapshotted (later mutations of the draft do not
\* reach them); a snapshot pushed on a full stack evicts exactly the oldest entry.
C14_StackBoundedNewestFirst ==
    [][\A id \in Students :
         /\ Len(historyStacks'[id]) <= MAX_HISTORY
         /\ IsPrefix(historyStacks'[id], snapshotLog'[id])
         /\ lastOp' = [op |-> "snapshot", id |-> id] =>
               /\ historyStacks'[id][1] = sessionStates[id]
               /\ IF Len(historyStacks[id]) < MAX_HISTORY
                  THEN Tail(historyStacks'[id]) = historyStacks[id]
                  ELSE Tail(historyStacks'[id]) = SubSeq(historyStacks[id], 1, MAX_HISTORY - 1)
         /\ lastOp'.op \notin {"snapshot", "undo"} => historyStacks' = historyStacks]_vars

\* the eleventh snapshot has evicted the first, and the draft has changed since
C14_Witness ==
    /\ snapshotCount = 11
    /\ Len(snapshotLog["s1"]) = 11
    /\ Len(historyStacks["s1"]) = MAX_HISTORY
    /\ historyStacks["s1"][MAX_HISTORY] = snapshotLog["s1"][MAX_HISTORY]
    /\ historyStacks["s1"][1] # historyStacks["s1"][MAX_HISTORY]
    /\ sessionStates["s1"] # historyStacks["s1"][1]

\* C17: at every point of a session each subject of the group has a draft, and it
\* is the one draft created for that subject when the subject joined the group: no
\* second draft is ever created for a subject who stays in the group.
C17_OneDraftPerSubject ==
    mounted =>
        \A i \in 1..Len(studentsInGroup) :
            /\ studentsInGroup[i] \in DOMAIN sessionStates
            /\ draftsCreated[studentsInGroup[i]] = 1

\* C15: the tallies of a subject who stays in the session are never negative and
\* never decrease from one state to the next (the editor of NoteEditor.tsx has no
\* reset operation).
C15_TalliesNeverDecrease ==
    [][\A id \in DOMAIN sessionStates \cap DOMAIN sessionStates' :
          /\ sessionStates'[id].correctTally >= sessionStates[id].correctTally
          /\ sessionStates'[id].incorrectTally >= sessionStates[id].incorrectTally
          /\ sessionStates'[id].correctTally >= 0
          /\ sessionStates'[id].incorrectTally >= 0]_vars

-----------------------------------------------------------------------------
(* Claims about the intent dispatcher *)

\* C4: when every record_trial event that names a student is a correct or an
\* incorrect one and no call lacks its student_name, each student's tallies equal
\* the numbers of correct and incorrect events received for that student,
\* whatever events for other students arrive in between.
C4_TalliesCountEvents ==
    \A id \in Students :
        (~unaddressedSeen /\ trialEvents[id]["other"] = 0) =>
            /\ sessionStates[id].correctTally = trialEvents[id]["correct"]
            /\ sessionStates[id].incorrectTally = trialEvents[id]["incorrect"]

C4_Witness ==
    /\ ~unaddressedSeen
    /\ trialEvents["s1"]["other"] = 0
    /\ sessionStates["s1"].correctTally = 1
    /\ sessionStates["s1"].incorrectTally = 1
    /\ sessionStates["s2"].correctTally + sessionStates["s2"].incorrectTally = 1

AcksFor(id) == {i \in 1..Len(toolResponses) : toolResponses[i].id = id}

\* C5: an intent event whose hint matches no student changes no draft and no
\* transient flag, and exactly one acknowledgement {id, "ok"} is sent for it.
C5_NoMatchAcknowledged ==
    \A id \in noMatchIds :
        /\ Cardinality(AcksFor(id)) = 1
        /\ \A i \in AcksFor(id) : toolResponses[i].result = "ok"

\* C6: for every function call of every inbound message exactly one
\* acknowledgement carrying that call's id is sent.
C6_EveryCallAcknowledged ==
    \A id \in 1..(nextCallId - 1) : Cardinality(AcksFor(id)) = 1

\* C16: a call is dropped only when no subject of the group has a name that
\* contains the hint or is contained in the hint, compared case-insensitively.
C16_DroppedOnlyWithoutMatch ==
    \A d \in droppedCalls : \A i \in 1..Len(d.group) :
        LET name == toLowerCase(StudentName(d.group[i]))
            hint == toLowerCase(d.hint)
        IN  ~includes(name, hint) /\ ~includes(hint, name)

\* C18: a malformed call (no student_name, or a record_trial status that is
\* neither correct nor incorrect) changes no draft, does not keep later calls from
\* being processed and leaves the connection active: each student's tallies are
\* the numbers of well-formed correct and incorrect events received for that
\* student, and the status is still active after any call.
C18_MalformedIgnored ==
    /\ \A id \in Students :
          /\ sessionStates[id].correctTally = trialEvents[id]["correct"]
          /\ sessionStates[id].incorrectTally = trialEvents[id]["incorrect"]
    /\ nextCallId > 1 => liveStatus = "active"

-----------------------------------------------------------------------------
(* Claims about the streaming session controller *)

LeavesActive ==
    /\ mounted
    /\ liveStatus = "active"
    /\ liveStatus' # "active" \/ ~mounted'

\* C7: on every exit from Active (user stop, remote close, remote error, finalize or
\* cancel while Active) the microphone handle acquired at start is released and the
\* network connection is closed.
C7_ExitReleasesResources ==
    [][LeavesActive =>
         \A c \in SessionIds :
            liveSessions[c].phase = "open" =>
               /\ liveSessions'[c].stream # "held"
               /\ liveSessions'[c].phase \in {"closing", "closed"}]_vars

OpenOrPending == {c \in SessionIds : liveSessions[c].phase \in {"connecting", "open"}}

\* C8: at every moment at most one remote connection is open or pending for the
\* group session.
C8_AtMostOneConnection == Cardinality(OpenOrPending) <= 1

\* C9: the connection state enters Active only by the transition
\* Connecting -> Active; Active is never entered from Idle.
C9_ActiveOnlyFromConnecting ==
    [][(liveStatus # "active" /\ liveStatus' = "active") => liveStatus = "connecting"]_vars

\* C10: an encoded audio frame is sent to the remote service only while the
\* connection state is Active.
C10_FramesOnlyWhileActive == frameSentWhile \subseteq {"active"}

\* C11: when the microphone acquisition of a start fails, the connection state is
\* Idle right after, that start never opens a remote connection and is never
\* retried, and a new acquisition begins only with a user start from Idle.
C11_DeniedReturnsToIdle ==
    [][/\ \A c \in SessionIds :
            /\ (liveSessions[c].phase = "mic" /\ liveSessions'[c].phase = "denied" /\ mounted)
                  => liveStatus' = "idle"
            /\ liveSessions[c].phase = "denied" => liveSessions'[c].phase = "denied"
       /\ Len(liveSessions') # Len(liveSessions) =>
            /\ Len(liveSessions') = Len(liveSessions) + 1
            /\ liveStatus = "idle" /\ liveStatus' = "connecting"]_vars

\* the only start made was denied the microphone: Idle, and nothing open or pending
C11_Witness ==
    /\ Len(liveSessions) = 1
    /\ liveSessions[1].phase = "denied"
    /\ liveStatus = "idle"
    /\ OpenOrPending = {}
    /\ mounted

-----------------------------------------------------------------------------
(* Claims about the session finalizer *)

\* (correct * 100) / total rounded to the nearest integer, halves up
RoundedPercent(correct, total) == (200 * correct + total) \div (2 * total)

\* C12: handleSaveAll emits a metrics block for a subject if and only if its trial
\* total is positive, and then accuracy is (correct * 100) / total rounded to the
\* nearest integer (halves up) and totalTrials is the total.
C12_MetricsIffTrials ==
    savedNotes # <<>> =>
        \A i \in 1..Len(savedNotes[1]) :
            LET note == savedNotes[1][i]
                st == sessionStates[note.studentId]
                total == st.correctTally + st.incorrectTally
            IN  /\ note.metrics # <<>> <=> total > 0
                /\ note.metrics # <<>> =>
                      /\ note.metrics[1].accuracy = RoundedPercent(st.correctTally, total)
                      /\ note.metrics[1].totalTrials = total

\* C13: handleFinalize emits no metrics block for a subject whose trial total is 0.
C13_NoMetricsWithoutTrials ==
    savedNotes # <<>> =>
        \A i \in 1..Len(savedNotes[1]) :
            LET note == savedNotes[1][i]
                st == sessionStates[note.studentId]
            IN  st.correctTally + st.incorrectTally = 0 => note.metrics = <<>>

\* C19: no finalization ends with an exception, and what is delivered to
\* persistence is one record per subject of the group, in group order, each with
\* the subject's id and with text in all four note fields.
C19_OneRecordPerSubject ==
    /\ ~saveThrew
    /\ savedNotes # <<>> =>
          /\ Len(savedNotes[1]) = Len(studentsInGroup)
          /\ \A i \in 1..Len(studentsInGroup) :
                /\ savedNotes[1][i].studentId = studentsInGroup[i]
                /\ \A part \in {"subjective", "objective", "assessment", "plan"} :
                      savedNotes[1][i][part] # Undefined

-----------------------------------------------------------------------------
(* Claims about group changes *)

\* C25: an intent event is resolved against the group as it is when the event
\* arrives: the event reaches the draft of the student of the present group whom
\* its hint names, and an event that names nobody of the present group changes no
\* draft and creates no draft entry.
C25_ResolvedAgainstPresentGroup ==
    [][\A c \in SessionIds : \A m \in CuingMessages :
          (c <= Len(liveSessions) /\ ToolCall(c, m)) =>
              LET fc == m.functionCalls[1]
                  now == TargetStudent(studentsInGroup, fc.student_name)
              IN  /\ now # <<>> =>
                        /\ now[1] \in DOMAIN sessionStates'
                        /\ sessionStates'[now[1]].cuingLevel = fc.level
                  /\ now = <<>> => sessionStates' = sessionStates
                  /\ (DOMAIN sessionStates') \ (DOMAIN sessionStates)
                        \subseteq Elements(studentsInGroup)]_vars

\* C26: when the parent supplies the group again, the students who were in the
\* group and still are keep their drafts as they were.
C26_RemainingDraftsKept ==
    [][ParentRerender =>
          \A id \in Elements(studentsInGroup) \cap Elements(studentsInGroup') :
              /\ id \in DOMAIN sessionStates'
              /\ sessionStates'[id] = sessionStates[id]]_vars

\* C21: a subject who is added back to the group after having been removed starts
\* from a fresh default draft and an empty history stack.
C21_ReaddedStartsFresh ==
    [][\A id \in Students :
         (id \notin Elements(studentsInGroup) /\ id \in Elements(studentsInGroup')) =>
             /\ sessionStates'[id] = InitialEditorDraft(id)
             /\ historyStacks'[id] = <<>>]_vars

-----------------------------------------------------------------------------
(* Claims about the effect of one intent event *)

\* the draft fields an event of a kind may change
FieldsOfKind(name) ==
    CASE name = "record_trial"       -> {"correctTally", "incorrectTally"}
      [] name = "add_observation"    -> {"rawObservations"}
      [] name = "update_cuing_level" -> {"cuingLevel"}
      [] OTHER -> {}

ChangedFields ==
    {<<id, f>> \in Students \X DOMAIN InitialDraft("s1") :
        sessionStates'[id][f] # sessionStates[id][f]}

\* C22: a message of intent events changes a field of a student's draft only if
\* one of its events matched that student and is of the kind that owns the field;
\* one event changes at most one field (one tally for a trial), and a cuing level
\* event leaves the level it carries.
C22_EventChangesOnlyItsField ==
    [][\A c \in SessionIds : \A m \in ToolCallMessages :
          (c <= Len(liveSessions) /\ ToolCall(c, m)) =>
              LET calls == m.functionCalls
                  group == liveSessions[c].studentsInGroup
              IN  /\ \A ch \in ChangedFields :
                        \E i \in 1..Len(calls) :
                            /\ calls[i].student_name # Undefined
                            /\ TargetStudent(group, calls[i].student_name) = <<ch[1]>>
                            /\ ch[2] \in FieldsOfKind(calls[i].name)
                  /\ Cardinality(ChangedFields) <= Len(calls)
                  /\ (Len(calls) = 1 /\ calls[1].name = "update_cuing_level"
                        /\ calls[1].student_name # Undefined) =>
                        \A id \in Students :
                            TargetStudent(group, calls[1].student_name) = <<id>> =>
                                sessionStates'[id].cuingLevel = calls[1].level]_vars

\* the three kinds of event have reached the first student and the second
\* student's draft is as it was created
C22_Witness ==
    /\ sessionStates["s1"].correctTally + sessionStates["s1"].incorrectTally = 1
    /\ sessionStates["s1"].rawObservations # <<>>
    /\ sessionStates["s1"].cuingLevel = "Minimal"
    /\ sessionStates["s2"] = InitialDraft("s2")

\* C23: an observation event appends to the matched student's observations the
\* line "U+2022 text" (a bullet, a space, the text), after a newline exactly when
\* the observations were not empty, and leaves the text before it as it was.
C23_ObservationAppendsBulletLine ==
    [][\A c \in SessionIds : \A m \in ToolCallMessages :
          (/\ c <= Len(liveSessions)
           /\ Len(m.functionCalls) = 1
           /\ m.functionCalls[1].name = "add_observation"
           /\ m.functionCalls[1].student_name # Undefined
           /\ ToolCall(c, m)) =>
              \A id \in Students :
                  TargetStudent(liveSessions[c].studentsInGroup,
                                m.functionCalls[1].student_name) = <<id>> =>
                      LET before == sessionStates[id].rawObservations
                      IN  sessionStates'[id].rawObservations =
                              before \o (IF before # <<>> THEN <<"\n">> ELSE <<>>)
                                     \o <<"U+2022", " ">> \o m.functionCalls[1].text]_vars

\* C24: a feedback flag is cleared only by the timer of the event that set it:
\* when a flag is cleared, no timer of a later event is still pending (the timers
\* have one delay each, so they fire in the order of their events).
C24_FlagClearedByOwnTimer ==
    [][/\ (flashTally # <<>> /\ flashTally' = <<>>) => tallyTimers' = 0
       /\ (flashCuing # <<>> /\ flashCuing' = <<>>) => cuingTimers' = 0]_vars

-----------------------------------------------------------------------------
(* Claims about the assistant of part_003 *)

\* C27: a transcribed chunk is appended, after a space, to the observations of the
\* student who is active when the chunk arrives, and no other draft changes.
C27_ChunkGoesToActiveStudent ==
    [][(lastOp'.op = "transcribed" /\ editCount' = editCount + 1) =>
          /\ \E text \in {<<"t">>, <<"u">>} :
                sessionStates'[activeStudentId].rawObservations =
                    sessionStates[activeStudentId].rawObservations \o <<" ">> \o text
          /\ \A id \in Students \ {activeStudentId} :
                sessionStates'[id] = sessionStates[id]]_vars

\* C28: when the drafting request fails, the failure changes no draft, and the
\* student's history stack is as it was before the request: a request made on an
\* empty stack and not undone leaves the stack empty.
C28_FailedDraftLeavesNoSnapshot ==
    [][\A id \in Students :
         lastOp' = [op |-> "aiFailed", id |-> id] =>
             /\ sessionStates' = sessionStates
             /\ oneSnapshot[id] => historyStacks'[id] = <<>>]_vars

\* C29: a persisted note with trials that is opened and finalized without any edit
\* yields a note with the same accuracy and the same totalTrials.
C29_ReopenKeepsMetrics ==
    (savedNotes # <<>> /\ sessionStates["s1"] = NoteDraft("s1", initialNote[1])) =>
        /\ savedNotes[1][1].metrics # <<>>
        /\ savedNotes[1][1].metrics[1].accuracy = initialNote[1].metrics[1].accuracy
        /\ savedNotes[1][1].metrics[1].totalTrials = initialNote[1].metrics[1].totalTrials

-----------------------------------------------------------------------------
(* Claims about the audio frame encoder *)

\* base64 digits back to bytes
RECURSIVE atob(_)
atob(digits) ==
    IF digits = <<>> THEN <<>>
    ELSE LET d == SubSeq(digits, 1, 4)
             rest == atob(SubSeq(digits, 5, Len(digits)))
         IN  IF d[3] = Pad THEN <<d[1] * 4 + d[2] \div 16>>
             ELSE IF d[4] = Pad
                  THEN <<d[1] * 4 + d[2] \div 16, (d[2] % 16) * 16 + d[3] \div 4>>
             ELSE <<d[1] * 4 + d[2] \div 16, (d[2] % 16) * 16 + d[3] \div 4,
                    (d[3] % 4) * 64 + d[4]>> \o rest

\* the 16-bit signed little-endian value at sample position i
Pcm16(bytes, i) ==
    LET u == bytes[2 * i - 1] + 256 * bytes[2 * i]
    IN  IF u >= 32768 THEN u - 65536 ELSE u

\* C30: a frame holds two bytes per sample of its buffer, its tag is
\* audio/pcm;rate=16000, and no sample is encoded with the opposite sign: a
\* positive sample is not negative in the frame and a negative one not positive.
C30_EncodingKeepsSign ==
    lastFrame.mimeType # "" =>
        LET bytes == atob(lastFrame.data)
        IN  /\ lastFrame.mimeType = "audio/pcm;rate=16000"
            /\ Len(bytes) = 2 * Len(lastFrame.input)
            /\ \A i \in 1..Len(lastFrame.input) :
                  /\ lastFrame.input[i] > 0 => Pcm16(bytes, i) >= 0
                  /\ lastFrame.input[i] < 0 => Pcm16(bytes, i) =< 0

====
